---- MODULE Spec2Model ----
(***************************************************************************)
(* Model of the tap-in validation engine of portam-server                  *)
(* (src/controllers/validation.js).  Every `await supabase...` of the      *)
(* handler is one atomic step of a request: the store executes the query   *)
(* and the handler runs its synchronous continuation up to the next await. *)
(* Several requests run concurrently against one store.                    *)
(***************************************************************************)
EXTENDS Integers, Sequences, FiniteSets, TLC

\* ------------------------------------------------------------------ bounds
MaxTime == 2          \* the clock runs over 0..MaxTime (minutes)
MaxRequests == 3      \* validate requests started in one behaviour
MaxOrigin == 4        \* Zone Resolver inputs: origin in 0..MaxOrigin
MaxNumZones == 3      \* Zone Resolver inputs: num_zones in 1..MaxNumZones
MaxIssued == 2        \* rows of user_titles the titles controller works on
MaxSuports == 2       \* rows of suports the users controller works on

\* --------------------------------------------------------- values and world
\* SQL null / JS null of a nullable column
Null == -9

\* the request handlers that may be in flight at once
Procs == {"r1", "r2"}

\* the handler that serves every request when requests do not overlap
SeqProc == "r1"

\* body.suport / body.station of a request; 0 stands for a missing (falsy) value
SuportInputs == 0 .. 5
StationInputs == 0 .. 5

\* the requests of overlapping handlers: the active token of the product's rider
\* at the two stations that can initialize the product
ConcurrentSuportInputs == {1}
ConcurrentStationInputs == {1, 2}

\* table suports: uid -> [user, activation]; uid 5 does not exist, uid 3 is
\* activated at minute 1, the rider of uid 4 has no issued product
suports ==
    [uid \in {1, 2, 3, 4} |->
        CASE uid = 1 -> [user |-> 1, activation |-> 0]
          [] uid = 2 -> [user |-> 1, activation |-> Null]
          [] uid = 3 -> [user |-> 1, activation |-> 1]
          [] uid = 4 -> [user |-> 2, activation |-> 0]]

\* table stations + station_zones: id -> [available, zones]; id 5 does not exist
stations ==
    [id \in {1, 2, 3, 4} |->
        CASE id = 1 -> [available |-> TRUE,  zones |-> {1}]
          [] id = 2 -> [available |-> TRUE,  zones |-> {2, 3}]
          [] id = 3 -> [available |-> FALSE, zones |-> {1}]
          [] id = 4 -> [available |-> TRUE,  zones |-> {}]]

\* table zones: the existing zone ids
zones == {1, 2, 3}

\* the one issued product of the model (user_titles.id) and its rider
UserTitleId == 1
UserTitleUser == 1

\* table users: the riders; user 3 does not exist
users == {1, 2}
UserInputs == {1, 2, 3}

\* the two builds of the titles controller in the repository
Builds == {"controllers/titles.js", "unnamed/part_001"}

\* the clock counts minutes from a local midnight; setDate(getDate() + n) moves
\* a date by n days
MinutesPerDay == 1440

\* the requests of the specification that assigns the product: the active
\* tokens of the two riders at the stations that have zones
AssignSuportInputs == {1, 4}
AssignStationInputs == {1, 2}

\* -------------------------------------------------------------- variables
VARIABLES
    now,               \* wall clock, minutes
    clockSeq,          \* order of the instants captured by `new Date()` for events
    user_title,        \* the user_titles row of the issued product
    user_title_zones,  \* rows of user_title_zones: set of <<user_title, zone>>
    validation,        \* rows of the validation ledger, in insertion order
    pc,                \* per handler: idle, the await it is suspended at, or responded
    req,               \* per request: [suport, station]
    loc,               \* per request: the handler's local variables
    nreq,              \* requests started
    faulty,            \* whether store operations may fail (fixed by the initial state)
    initWrites,        \* history: the first_use/zone_origin updates applied, in order
    charged,           \* history: chargeable successes answered
    concurrent,        \* whether requests may overlap (fixed by the initial state)
    uses0,             \* history: uses_left of the product when it was assigned
    zr,                \* Zone Resolver harness: [origin, numZones, existing, result]
    issue,             \* the titles controller: [build, title, at], at = minute of assignment
    lookup,            \* message catalog harness: [a, b, data, gotA, gotB]
    issued,            \* table user_titles of several riders and the administrators:
                       \* [rows, adm]
    tokens             \* table suports and the administrators: [rows, adm, tap, rebound]

vars == <<now, clockSeq, user_title, user_title_zones, validation, pc, req, loc,
          nreq, faulty, initWrites, charged, concurrent, uses0, zr, issue, lookup,
          issued, tokens>>

storeVars == <<user_title, user_title_zones, validation>>

\* the state of the harnesses that stand beside the validation handler
adminVars == <<lookup, issued, tokens>>

\* what a validate request never touches: what an initial state fixes for the
\* whole behaviour, the resolver harness, the titles controller and the harnesses
configVars == <<faulty, concurrent, uses0, zr, issue, adminVars>>

\* what the harnesses never touch
validateVars == <<now, clockSeq, storeVars, pc, req, loc, nreq, faulty, initWrites,
                  charged, concurrent, uses0, zr, issue>>

\* ------------------------------------------------------- pure computations
\* validation.js 202-212: the loop that collects the existing zones around
\* zone_origin, in the order the loop pushes them
RECURSIVE ZoneLoop(_, _, _, _, _)
ZoneLoop(offset, radius, zoneOrigin, existingZoneIds, acc) ==
    IF offset > radius THEN acc
    ELSE ZoneLoop(offset + 1, radius, zoneOrigin, existingZoneIds,
                  IF (zoneOrigin + offset) \in existingZoneIds
                  THEN Append(acc, zoneOrigin + offset)
                  ELSE acc)

\* a resolver whose radius is num_zones instead of num_zones - 1
userTitleZoneIdsOf_WideRadius(zoneOrigin, numZones, existingZoneIds) ==
    ZoneLoop(-numZones, numZones, zoneOrigin, existingZoneIds, <<>>)

\* a resolver whose loop starts after the origin
userTitleZoneIdsOf_SkipsOrigin(zoneOrigin, numZones, existingZoneIds) ==
    ZoneLoop(1, numZones - 1, zoneOrigin, existingZoneIds, <<>>)

userTitleZoneIdsOf(zoneOrigin, numZones, existingZoneIds) ==
    ZoneLoop(-(numZones - 1), numZones - 1, zoneOrigin, existingZoneIds, <<>>)

Range(s) == {s[i] : i \in 1 .. Len(s)}

\* lowest element of a non-empty set: station_zones ordered ascending, row 0
MinOf(S) == CHOOSE x \in S : \A y \in S : x <= y

\* ------------------------------------------------------------ gate tests
\* a parameter check that forgets the station
MissingParameters_OnlySuport(suport, station) == suport = 0

\* 108: !suport || !station
MissingParameters(suport, station) == suport = 0 \/ station = 0

\* a gate 6 that initializes the product at every tap
NeedsInit_Always(ut) == TRUE

\* 163: !userTitleData.first_use
NeedsInit(ut) == ut.first_use = Null

\* a gate 2 that forgets the null activation
SuportInactive_IgnoresNull(activation, t) == activation # Null /\ activation > t

\* 126: !suportData.activation || new Date(suportData.activation) > new Date()
SuportInactive(activation, t) == activation = Null \/ activation > t

\* a gate 5 that takes a product without first use as not yet running
UserTitleExpired_OnlyAfterFirstUse(ut, t) ==
    ut.first_use # Null /\ ut.expiration # Null /\ ut.expiration < t

\* 157: userTitleData.expiration && new Date(userTitleData.expiration) < new Date()
UserTitleExpired(ut, t) == ut.expiration # Null /\ ut.expiration < t

\* a gate 6 that goes on with an empty result
NoZonesResolved_Never(ids) == FALSE

\* 216: userTitleZoneIds.length === 0
NoZonesResolved(ids) == Len(ids) = 0

\* a gate 7 that counts an event at any station
ReentryTimeNotPassed_AnyStation(last, station, t, re_entry) ==
    t - last.timestamp < re_entry

\* 288: lastStationId === currentStationId && timeSinceLastValidation < re_entry
ReentryTimeNotPassed(last, station, t, re_entry) ==
    last.station = station /\ t - last.timestamp < re_entry

\* a gate 9 that counts an event at any station
LinkTimeNotPassed_AnyStation(last, station, t, link) ==
    t - last.timestamp < link

\* 352: timeSinceLastValidation < link && lastStationId !== currentStationId
LinkTimeNotPassed(last, station, t, link) ==
    t - last.timestamp < link /\ last.station # station

\* a gate 10 that is not skipped for a free validation
UsesExhausted_IgnoresFree(isFreeValidation, uses_left) ==
    uses_left # Null /\ uses_left <= 0

\* a gate 10 that lets a product with no use left pass
UsesExhausted_BelowZero(isFreeValidation, uses_left) ==
    ~isFreeValidation /\ uses_left # Null /\ uses_left < 0

\* 361-362: !isFreeValidation && uses_left !== null, then uses_left <= 0
UsesExhausted(isFreeValidation, uses_left) ==
    ~isFreeValidation /\ uses_left # Null /\ uses_left <= 0

\* a decrement that writes back the value it read
DecrementedUsesLeft_Unchanged(uses_left) == uses_left

\* 393: updatedUsesLeft = userTitleData.uses_left - 1
DecrementedUsesLeft(uses_left) == uses_left - 1

\* --------------------------------------------------------- request locals
NoRow == [id |-> Null, user |-> Null, uses_left |-> Null, first_use |-> Null,
          expiration |-> Null, re_entry |-> Null, zone_origin |-> Null,
          active |-> FALSE, link |-> Null, num_zones |-> Null]

NoReq == [suport |-> 0, station |-> 0]

NoSnap == [user_title |-> NoRow, user_title_zones |-> {}, validation |-> <<>>]

\* the locals of a handler that is not running
LocInit ==
    [user |-> Null,              \* suportData.user
     userTitleData |-> NoRow,    \* the row read at gate 4, updated locally at 263-264
     zoneOrigin |-> Null,        \* 178
     userTitleZoneIds |-> <<>>,  \* 203-212
     currentTime |-> <<Null, Null>>,  \* 221 and 369: <<minute, order of capture>>
     isFreeValidation |-> FALSE, \* 331
     writes |-> {},              \* history: the writes this request has applied
     erred |-> FALSE,            \* history: a store error was swallowed by a gate
     snap |-> NoSnap,            \* history: the store when the request arrived
     t0 |-> Null,                \* history: the clock when the request arrived
     t1 |-> Null,                \* history: the clock when the response was sent
     status |-> "none",          \* the response: message.status
     uses_left |-> Null]         \* the response: uses_left of a success

\* the outcomes of a store operation: { error: null } or { error: ... }
ErrChoices == IF faulty THEN {FALSE, TRUE} ELSE {FALSE}

\* res.status(message.code).json(message): the handler returns
Finish(p, L, status, usesLeft) ==
    /\ loc' = [loc EXCEPT ![p] = [L EXCEPT !.status = status,
                                           !.uses_left = usesLeft,
                                           !.t1 = IF concurrent THEN Null ELSE now]]
    /\ pc' = [pc EXCEPT ![p] = "responded"]
    /\ charged' = IF status = "VALIDATION_SUCCESS" /\ ~L.isFreeValidation
                  THEN charged + 1 ELSE charged
    /\ UNCHANGED req

\* the handler suspends at its next await
Goto(p, L, label) ==
    /\ loc' = [loc EXCEPT ![p] = L]
    /\ pc' = [pc EXCEPT ![p] = label]
    /\ UNCHANGED <<req, charged>>

\* the row .order('timestamp', desc).limit(1).single() returns for a product.
\* A timestamp is the minute of the captured instant and seq the order of the
\* capture inside the minute; the column is a timestamp without time zone, which
\* the handler writes as UTC (369-375) and reads back as UTC (279, 343).
HasValidation(utid) == \E i \in 1 .. Len(validation) : validation[i].user_title = utid

\* a query that orders the events ascending
LastValidation_Oldest(utid) ==
    LET rows == {validation[i] : i \in 1 .. Len(validation)}
        mine == {v \in rows : v.user_title = utid}
    IN CHOOSE v \in mine : \A w \in mine : v.seq <= w.seq

LastValidation(utid) ==
    LET rows == {validation[i] : i \in 1 .. Len(validation)}
        mine == {v \in rows : v.user_title = utid}
    IN CHOOSE v \in mine : \A w \in mine : w.seq <= v.seq

\* a handler that tests the link column where gate 7 tests re_entry
AfterInit_TestsLink(ut) == IF ut.link # Null THEN "reentry" ELSE "station_zones"

\* 267 / 360: where the handler suspends after gate 6
AfterInit(ut) == IF ut.re_entry # Null THEN "reentry" ELSE "station_zones"

\* 360-369: gate 10, then the capture of the event's timestamp
Gate10(p, L) ==
    IF UsesExhausted(L.isFreeValidation, L.userTitleData.uses_left)
    THEN /\ Finish(p, L, "ERROR_NO_USES_LEFT", Null)
         /\ UNCHANGED clockSeq
    ELSE /\ Goto(p, [L EXCEPT !.currentTime = <<now, clockSeq>>], "insert_validation")
         /\ clockSeq' = clockSeq + 1

\* ------------------------------------------------------------------ actions
\* 103-111: a request arrives; missing parameters are answered at once
Request(p) ==
    /\ pc[p] = "idle"
    /\ nreq < MaxRequests
    /\ concurrent \/ p = SeqProc
    /\ \E suport \in IF concurrent THEN ConcurrentSuportInputs
                      ELSE IF issue.build # "none" THEN AssignSuportInputs
                      ELSE SuportInputs,
          station \in IF concurrent THEN ConcurrentStationInputs
                       ELSE IF issue.build # "none" THEN AssignStationInputs
                       ELSE StationInputs :
        LET L == IF concurrent THEN LocInit
                 ELSE [LocInit EXCEPT
                         !.snap = [user_title |-> user_title,
                                   user_title_zones |-> user_title_zones,
                                   validation |-> validation],
                         !.t0 = now]
        IN /\ req' = [req EXCEPT ![p] = [suport |-> suport, station |-> station]]
           /\ IF MissingParameters(suport, station)
              THEN /\ loc' = [loc EXCEPT ![p] =
                                [L EXCEPT !.status = "ERROR_MISSING_PARAMETERS",
                                          !.t1 = L.t0]]
                   /\ pc' = [pc EXCEPT ![p] = "responded"]
              ELSE /\ loc' = [loc EXCEPT ![p] = L]
                   /\ pc' = [pc EXCEPT ![p] = "suports"]
    /\ nreq' = nreq + 1
    /\ UNCHANGED <<now, clockSeq, storeVars, initWrites, charged, configVars>>

\* the response has been delivered; the handler is free for the next request
Return(p) ==
    /\ pc[p] = "responded"
    /\ pc' = [pc EXCEPT ![p] = "idle"]
    /\ req' = [req EXCEPT ![p] = NoReq]
    /\ loc' = [loc EXCEPT ![p] = LocInit]
    /\ UNCHANGED <<now, clockSeq, storeVars, nreq, initWrites, charged, configVars>>

\* 113-129: gates 1 and 2
ReadSuports(p) ==
    /\ pc[p] = "suports"
    /\ \E err \in ErrChoices :
        /\ LET L == loc[p]
               uid == req[p].suport
           IN IF err \/ uid \notin DOMAIN suports
              THEN Finish(p, [L EXCEPT !.erred = err], "ERROR_SUPORT_NOT_FOUND", Null)
              ELSE IF SuportInactive(suports[uid].activation, now)
              THEN Finish(p, L, "ERROR_SUPORT_INACTIVE", Null)
              ELSE Goto(p, [L EXCEPT !.user = suports[uid].user], "stations")
    /\ UNCHANGED <<now, clockSeq, storeVars, nreq, initWrites, configVars>>

\* 131-141: gate 3
ReadStations(p) ==
    /\ pc[p] = "stations"
    /\ \E err \in ErrChoices :
        /\ LET L == loc[p]
               id == req[p].station
           IN IF err \/ id \notin DOMAIN stations \/ ~stations[id].available
              THEN Finish(p, [L EXCEPT !.erred = err], "ERROR_STATION_NOT_AVAILABLE", Null)
              ELSE Goto(p, L, "user_titles")
    /\ UNCHANGED <<now, clockSeq, storeVars, nreq, initWrites, configVars>>

\* 143-163: gates 4 and 5, and the test of first_use
ReadUserTitles(p) ==
    /\ pc[p] = "user_titles"
    /\ \E err \in ErrChoices :
        /\ LET L == loc[p]
               found == user_title.user = L.user /\ user_title.active
           IN IF err \/ ~found
              THEN Finish(p, [L EXCEPT !.erred = err], "ERROR_NO_USER_TITLE_ACTIVE", Null)
              ELSE IF UserTitleExpired(user_title, now)
              THEN Finish(p, L, "ERROR_USER_TITLE_EXPIRED", Null)
              ELSE Goto(p, [L EXCEPT !.userTitleData = user_title],
                        IF NeedsInit(user_title) THEN "init_station_zones"
                        ELSE AfterInit(user_title))
    /\ UNCHANGED <<now, clockSeq, storeVars, nreq, initWrites, configVars>>

\* 166-178: gate 6, the station's zones in ascending order, the first is the origin
InitReadStationZones(p) ==
    /\ pc[p] = "init_station_zones"
    /\ \E err \in ErrChoices :
        /\ LET L == loc[p]
               stationZones == stations[req[p].station].zones
           IN IF err \/ stationZones = {}
              THEN Finish(p, [L EXCEPT !.erred = err],
                          "ERROR_CANNOT_INITIALIZE_USER_TITLE", Null)
              ELSE Goto(p, [L EXCEPT !.zoneOrigin = MinOf(stationZones)], "init_zones")
    /\ UNCHANGED <<now, clockSeq, storeVars, nreq, initWrites, configVars>>

\* 181-227: the existing zones, the Zone Resolver and the capture of first_use
InitReadZones(p) ==
    /\ pc[p] = "init_zones"
    /\ \E err \in ErrChoices :
        /\ LET L == loc[p]
               ids == userTitleZoneIdsOf(L.zoneOrigin, L.userTitleData.num_zones, zones)
           IN IF err
              THEN Finish(p, L, "ERROR_INTERNAL_SERVER", Null)
              ELSE IF NoZonesResolved(ids)
              THEN Finish(p, L, "ERROR_CANNOT_INITIALIZE_USER_TITLE", Null)
              ELSE Goto(p, [L EXCEPT !.userTitleZoneIds = ids,
                                     !.currentTime = <<now, Null>>], "init_update")
    /\ UNCHANGED <<now, clockSeq, storeVars, nreq, initWrites, configVars>>

\* 229-243: update user_titles set first_use, zone_origin where id = ...
InitUpdateUserTitle(p) ==
    /\ pc[p] = "init_update"
    /\ \E err \in ErrChoices :
        /\ LET L == loc[p]
           IN IF err
              THEN /\ Finish(p, L, "ERROR_INTERNAL_SERVER", Null)
                   /\ UNCHANGED <<user_title, initWrites>>
              ELSE /\ user_title' = [user_title EXCEPT
                                        !.first_use = L.currentTime[1],
                                        !.zone_origin = L.zoneOrigin]
                   /\ initWrites' = Append(initWrites,
                                           [station |-> req[p].station,
                                            first_use |-> L.currentTime[1],
                                            zone_origin |-> L.zoneOrigin])
                   /\ Goto(p, [L EXCEPT !.writes = @ \cup {"first_use"}], "init_insert")
    /\ UNCHANGED <<now, clockSeq, user_title_zones, validation, nreq, configVars>>

\* 245-265: insert into user_title_zones, one row per zone; the primary key
\* (user_title, zone) rejects the whole insert if one of the rows exists
InitInsertUserTitleZones(p) ==
    /\ pc[p] = "init_insert"
    /\ \E err \in ErrChoices :
        /\ LET L == loc[p]
               rows == {<<L.userTitleData.id, z>> : z \in Range(L.userTitleZoneIds)}
           IN IF err \/ rows \cap user_title_zones # {}
              THEN /\ Finish(p, L, "ERROR_INTERNAL_SERVER", Null)
                   /\ UNCHANGED user_title_zones
              ELSE /\ user_title_zones' = user_title_zones \cup rows
                   /\ LET ut == [L.userTitleData EXCEPT
                                    !.first_use = L.currentTime[1],
                                    !.zone_origin = L.zoneOrigin]
                      IN Goto(p, [L EXCEPT !.userTitleData = ut,
                                           !.writes = @ \cup {"user_title_zones"}],
                              AfterInit(ut))
    /\ UNCHANGED <<now, clockSeq, user_title, validation, nreq, initWrites, configVars>>

\* 267-293: gate 7, the re-entry cooldown
ReadLastValidationReentry(p) ==
    /\ pc[p] = "reentry"
    /\ \E err \in ErrChoices :
        /\ LET L == loc[p]
               utid == L.userTitleData.id
           IN IF ~err /\ HasValidation(utid)
                 /\ ReentryTimeNotPassed(LastValidation(utid), req[p].station, now,
                                         L.userTitleData.re_entry)
              THEN Finish(p, L, "ERROR_REENTRY_TIME_NOT_PASSED", Null)
              ELSE Goto(p, [L EXCEPT !.erred = @ \/ err], "station_zones")
    /\ UNCHANGED <<now, clockSeq, storeVars, nreq, initWrites, configVars>>

\* 295-306: gate 8, the station's zones
ReadStationZones(p) ==
    /\ pc[p] = "station_zones"
    /\ \E err \in ErrChoices :
        /\ IF err
           THEN Finish(p, loc[p], "ERROR_INTERNAL_SERVER", Null)
           ELSE Goto(p, loc[p], "user_title_zones")
    /\ UNCHANGED <<now, clockSeq, storeVars, nreq, initWrites, configVars>>

\* 308-331 (and 360-369 when link is null): gate 8, the product's covered zones
ReadUserTitleZones(p) ==
    /\ pc[p] = "user_title_zones"
    /\ \E err \in ErrChoices :
        /\ LET L == loc[p]
               stationZoneIds == stations[req[p].station].zones
               userTitleZoneIds == {r[2] : r \in {x \in user_title_zones :
                                                    x[1] = L.userTitleData.id}}
               hasCommonZone == stationZoneIds \cap userTitleZoneIds # {}
           IN IF err
              THEN /\ Finish(p, L, "ERROR_INTERNAL_SERVER", Null)
                   /\ UNCHANGED clockSeq
              ELSE IF ~hasCommonZone
              THEN /\ Finish(p, L, "ERROR_USER_TITLE_NOT_VALID_FOR_ZONE", Null)
                   /\ UNCHANGED clockSeq
              ELSE IF L.userTitleData.link # Null
              THEN /\ Goto(p, L, "link")
                   /\ UNCHANGED clockSeq
              ELSE Gate10(p, L)
    /\ UNCHANGED <<now, storeVars, nreq, initWrites, configVars>>

\* 330-369: gates 9 and 10
ReadLastValidationLink(p) ==
    /\ pc[p] = "link"
    /\ \E err \in ErrChoices :
        /\ LET L == loc[p]
               utid == L.userTitleData.id
               free == /\ ~err
                       /\ HasValidation(utid)
                       /\ LinkTimeNotPassed(LastValidation(utid), req[p].station, now,
                                            L.userTitleData.link)
           IN Gate10(p, [L EXCEPT !.isFreeValidation = free, !.erred = @ \/ err])
    /\ UNCHANGED <<now, storeVars, nreq, initWrites, configVars>>

\* 368-392 (and 407-418 when nothing is to be decremented): insert the event
InsertValidation(p) ==
    /\ pc[p] = "insert_validation"
    /\ \E err \in ErrChoices :
        /\ LET L == loc[p]
               row == [user |-> L.user, suport |-> req[p].suport,
                       timestamp |-> L.currentTime[1], seq |-> L.currentTime[2],
                       station |-> req[p].station, user_title |-> L.userTitleData.id,
                       free |-> L.isFreeValidation]  \* free: history, not a column
               L2 == [L EXCEPT !.writes = @ \cup {"validation"}]
           IN IF err
              THEN /\ Finish(p, L, "ERROR_INTERNAL_SERVER", Null)
                   /\ UNCHANGED validation
              ELSE /\ validation' = Append(validation, row)
                   /\ IF ~L.isFreeValidation /\ L.userTitleData.uses_left # Null
                      THEN Goto(p, L2, "update_uses")
                      ELSE Finish(p, L2, "VALIDATION_SUCCESS", L.userTitleData.uses_left)
    /\ UNCHANGED <<now, clockSeq, user_title, user_title_zones, nreq, initWrites, configVars>>

\* 393-418: update user_titles set uses_left = <the value read at gate 4> - 1
UpdateUsesLeft(p) ==
    /\ pc[p] = "update_uses"
    /\ \E err \in ErrChoices :
        /\ LET L == loc[p]
               updatedUsesLeft == DecrementedUsesLeft(L.userTitleData.uses_left)
           IN IF err
              THEN /\ Finish(p, L, "ERROR_INTERNAL_SERVER", Null)
                   /\ UNCHANGED user_title
              ELSE /\ user_title' = [user_title EXCEPT !.uses_left = updatedUsesLeft]
                   /\ Finish(p, [L EXCEPT !.writes = @ \cup {"uses_left"}],
                             "VALIDATION_SUCCESS", updatedUsesLeft)
    /\ UNCHANGED <<now, clockSeq, user_title_zones, validation, nreq, initWrites, configVars>>

\* time passes
Tick ==
    /\ now < MaxTime
    /\ now' = now + 1
    /\ UNCHANGED <<clockSeq, storeVars, pc, req, loc, nreq, initWrites, charged,
                   configVars>>

Step(p) ==
    \/ Request(p)
    \/ ReadSuports(p)
    \/ ReadStations(p)
    \/ ReadUserTitles(p)
    \/ InitReadStationZones(p)
    \/ InitReadZones(p)
    \/ InitUpdateUserTitle(p)
    \/ InitInsertUserTitleZones(p)
    \/ ReadLastValidationReentry(p)
    \/ ReadStationZones(p)
    \/ ReadUserTitleZones(p)
    \/ ReadLastValidationLink(p)
    \/ InsertValidation(p)
    \/ UpdateUsesLeft(p)
    \/ Return(p)

\* ------------------------------------------------- the titles controller
NoTitle == [uses |-> Null, expiration |-> Null, re_entry |-> Null, link |-> Null,
            num_zones |-> Null]

NoIssue == [build |-> "none", title |-> NoTitle, at |-> Null]

\* an assignment that leaves the expiration to the first tap
ExpirationAtAssignment_None(build, t, days) == Null

\* titles.js 639-651: the date `days` days after the assignment, written with the
\* local getters down to the second; part_001 806-814: the same date written as
\* YYYY-MM-DD, which the timestamp column reads as the midnight that starts it
ExpirationAtAssignment(build, t, days) ==
    IF days = Null THEN Null
    ELSE IF build = "controllers/titles.js" THEN t + days * MinutesPerDay
    ELSE (t + days * MinutesPerDay) - ((t + days * MinutesPerDay) % MinutesPerDay)

\* controllers/titles.js 676 (active: true), part_001 840 (active: false)
ActiveAtInsert(build) == build = "controllers/titles.js"

\* titles.js 600-708 / part_001 767-870: POST /titles/user/:userId. The model
\* follows one issued product, so one assignment is stored; an unknown rider is
\* answered 404 and nothing is stored. No validate request is in flight.
AssignTitleToUser ==
    /\ issue.build # "none"
    /\ user_title.id = Null
    /\ \A p \in Procs : pc[p] = "idle"
    /\ \E userId \in UserInputs :
          IF userId \notin users
          THEN UNCHANGED <<user_title, issue, uses0>>
          ELSE /\ user_title' =
                     [id |-> UserTitleId, user |-> userId,
                      uses_left |-> issue.title.uses,
                      first_use |-> Null,
                      expiration |-> ExpirationAtAssignment(issue.build, now,
                                                            issue.title.expiration),
                      re_entry |-> issue.title.re_entry,
                      zone_origin |-> Null,
                      active |-> ActiveAtInsert(issue.build),
                      link |-> issue.title.link,
                      num_zones |-> issue.title.num_zones]
               /\ issue' = [issue EXCEPT !.at = now]
               /\ uses0' = issue.title.uses
    /\ UNCHANGED <<now, clockSeq, user_title_zones, validation, pc, req, loc, nreq,
                   faulty, initWrites, charged, concurrent, zr, adminVars>>

\* part_001 901-936: POST /titles/user/:userId/:userTitleId/activate. The rider's
\* active products are deactivated, then the named product of the rider is
\* activated; for another rider's product the second update matches no row.
ActivateTitleForUser ==
    /\ issue.build = "unnamed/part_001"
    /\ user_title.id # Null
    /\ \A p \in Procs : pc[p] = "idle"
    /\ \E userId \in UserInputs :
          user_title' = IF user_title.user = userId
                        THEN [user_title EXCEPT !.active = TRUE]
                        ELSE user_title
    /\ UNCHANGED <<now, clockSeq, user_title_zones, validation, pc, req, loc, nreq,
                   faulty, initWrites, charged, concurrent, uses0, zr, issue,
                   adminVars>>

\* ------------------------------------------------------- message catalog
\* src/messages/validation.js 17-163: the catalog, keyed by status tag (msg is
\* the English text of the entry)
messages ==
       ("VALIDATION_SUCCESS" :> [success |-> TRUE, code |-> 200, status |-> "VALIDATION_SUCCESS",
                                  msg |-> "Validation successful"])
    @@ ("HISTORY_FETCH_SUCCESS" :> [success |-> TRUE, code |-> 200, status |-> "HISTORY_FETCH_SUCCESS",
                                     msg |-> "Validation history fetched successfully"])
    @@ ("ERROR_SUPORT_NOT_FOUND" :> [success |-> FALSE, code |-> 404, status |-> "ERROR_SUPORT_NOT_FOUND",
                                      msg |-> "Support not found"])
    @@ ("ERROR_SUPORT_INACTIVE" :> [success |-> FALSE, code |-> 403, status |-> "ERROR_SUPORT_INACTIVE",
                                     msg |-> "Support inactive"])
    @@ ("ERROR_STATION_NOT_AVAILABLE" :> [success |-> FALSE, code |-> 404, status |-> "ERROR_STATION_NOT_AVAILABLE",
                                           msg |-> "Station not available"])
    @@ ("ERROR_NO_USER_TITLE_ACTIVE" :> [success |-> FALSE, code |-> 404, status |-> "ERROR_NO_USER_TITLE_ACTIVE",
                                          msg |-> "You have no active title"])
    @@ ("ERROR_USER_TITLE_EXPIRED" :> [success |-> FALSE, code |-> 410, status |-> "ERROR_USER_TITLE_EXPIRED",
                                        msg |-> "Your title has expired"])
    @@ ("ERROR_CANNOT_INITIALIZE_USER_TITLE" :> [success |-> FALSE, code |-> 403, status |-> "ERROR_CANNOT_INITIALIZE_USER_TITLE",
                                                  msg |-> "You cannot initialize the title at this station"])
    @@ ("ERROR_REENTRY_TIME_NOT_PASSED" :> [success |-> FALSE, code |-> 429, status |-> "ERROR_REENTRY_TIME_NOT_PASSED",
                                             msg |-> "You cannot validate at the same station yet"])
    @@ ("ERROR_USER_TITLE_NOT_VALID_FOR_ZONE" :> [success |-> FALSE, code |-> 403, status |-> "ERROR_USER_TITLE_NOT_VALID_FOR_ZONE",
                                                   msg |-> "Your title is not valid for this zone"])
    @@ ("ERROR_NO_USES_LEFT" :> [success |-> FALSE, code |-> 410, status |-> "ERROR_NO_USES_LEFT",
                                  msg |-> "You have no trips left"])
    @@ ("ERROR_INTERNAL_SERVER" :> [success |-> FALSE, code |-> 500, status |-> "ERROR_INTERNAL_SERVER",
                                     msg |-> "Internal server error"])
    @@ ("ERROR_MISSING_PARAMETERS" :> [success |-> FALSE, code |-> 400, status |-> "ERROR_MISSING_PARAMETERS",
                                        msg |-> "Missing required parameters"])

\* the nine domain denials of the validation handler
DomainDenials ==
    {"ERROR_SUPORT_NOT_FOUND", "ERROR_SUPORT_INACTIVE", "ERROR_STATION_NOT_AVAILABLE",
     "ERROR_NO_USER_TITLE_ACTIVE", "ERROR_USER_TITLE_EXPIRED",
     "ERROR_CANNOT_INITIALIZE_USER_TITLE", "ERROR_REENTRY_TIME_NOT_PASSED",
     "ERROR_USER_TITLE_NOT_VALID_FOR_ZONE", "ERROR_NO_USES_LEFT"}

getMessage_OnlyFallback(statusCode) == messages["ERROR_INTERNAL_SERVER"]

\* 170-172: messages[statusCode] || messages.ERROR_INTERNAL_SERVER
getMessage(statusCode) ==
    IF statusCode \in DOMAIN messages THEN messages[statusCode]
    ELSE messages["ERROR_INTERNAL_SERVER"]

\* 180-183: { ...message, ...additionalData }
getMessageWithData(statusCode, additionalData) ==
    LET message == getMessage(statusCode)
    IN [k \in DOMAIN message \cup DOMAIN additionalData |->
           IF k \in DOMAIN additionalData THEN additionalData[k] ELSE message[k]]

\* a tag of every entry and one that is in no entry
TagInputs == DOMAIN messages \cup {"ERROR_UNKNOWN"}

\* what the handler merges into a message: nothing, the store's error text, the
\* data of a success
AdditionalDataInputs ==
    {[k \in {} |-> ""], [error |-> "store error"], [uses_left |-> "1"]}

NoMessage == [success |-> FALSE, code |-> 0, status |-> "", msg |-> ""]

NoLookup == [a |-> "", b |-> "", data |-> [k \in {} |-> ""],
             gotA |-> NoMessage, gotB |-> NoMessage]

GetMessage ==
    /\ lookup.a # ""
    /\ lookup.gotA = NoMessage
    /\ lookup' = [lookup EXCEPT !.gotA = getMessage(lookup.a)]
    /\ UNCHANGED <<validateVars, issued, tokens>>

GetMessageWithData ==
    /\ lookup.b # ""
    /\ lookup.gotB = NoMessage
    /\ lookup' = [lookup EXCEPT !.gotB = getMessageWithData(lookup.b, lookup.data)]
    /\ UNCHANGED <<validateVars, issued, tokens>>

\* ------------------------------------------- products of several riders
\* The titles controller on a user_titles table of several rows, called by two
\* administrators at once. issue.build is the build of the controller and
\* issue.title the template (table titles, id TemplateId).
Admins == {"a1", "a2"}
UserTitleIds == 1 .. MaxIssued
TemplateId == 1
TitleInputs == {1, 2}

NoUserTitle ==
    [id |-> Null, user |-> Null, title |-> Null, uses_left |-> Null,
     expiration |-> Null, re_entry |-> Null, active |-> FALSE, link |-> Null,
     num_zones |-> Null, first_use |-> Null, zone_origin |-> Null]

NoUserTitles == [id \in UserTitleIds |-> NoUserTitle]

NoResponse == [status |-> 0, body |-> NoUserTitle]

AdminInit ==
    [pc |-> "idle", op |-> "none", userId |-> Null, userTitleId |-> Null,
     res |-> NoResponse, before |-> NoUserTitles, overlapped |-> FALSE]

NoIssued == [rows |-> NoUserTitles, adm |-> [a \in Admins |-> AdminInit]]

\* the ids of the active products of a rider in a table
ActiveOf(rows, userId) ==
    {id \in UserTitleIds : rows[id].id # Null /\ rows[id].user = userId /\ rows[id].active}

\* an operation of administrator a begins: it overlaps every operation that
\* has begun and whose response is not yet sent
Begin(adm, a, op, userId, userTitleId, rows) ==
    [b \in Admins |->
        IF b = a
        THEN [AdminInit EXCEPT !.op = op, !.userId = userId,
                               !.userTitleId = userTitleId, !.before = rows]
        ELSE IF adm[b].pc # "idle" THEN [adm[b] EXCEPT !.overlapped = TRUE]
        ELSE adm[b]]

\* res.status(status).json(...)
Respond(adm, a, status, body) ==
    [adm EXCEPT ![a].pc = "responded", ![a].res = [status |-> status, body |-> body]]

\* 689-701, part_001 853-865: the body of the 201 response
AssignResponse(row) == [row EXCEPT !.active = TRUE]

\* POST /titles/user/:userId: user check, title check, field copy, free id,
\* insert, response
AssignTitle(a) ==
    /\ issue.build # "none"
    /\ issued.adm[a].pc = "idle"
    /\ \E userId \in UserInputs, title \in TitleInputs, fails \in BOOLEAN,
          utid \in UserTitleIds :
          LET began == Begin(issued.adm, a, "assign", userId, utid, issued.rows)
              row == [id |-> utid, user |-> userId, title |-> title,
                      uses_left |-> issue.title.uses,
                      expiration |-> ExpirationAtAssignment(issue.build, now,
                                                            issue.title.expiration),
                      re_entry |-> issue.title.re_entry,
                      active |-> ActiveAtInsert(issue.build),
                      link |-> issue.title.link,
                      num_zones |-> issue.title.num_zones,
                      first_use |-> Null, zone_origin |-> Null]
          IN /\ issued.rows[utid].id = Null
             /\ IF userId \notin users \/ title # TemplateId
                THEN issued' = [issued EXCEPT !.adm = Respond(began, a, 404, NoUserTitle)]
                ELSE IF fails
                THEN issued' = [issued EXCEPT !.adm = Respond(began, a, 500, NoUserTitle)]
                ELSE issued' = [rows |-> [issued.rows EXCEPT ![utid] = row],
                                adm |-> Respond(began, a, 201, AssignResponse(row))]
    /\ UNCHANGED <<validateVars, lookup, tokens>>

\* DELETE /titles/user/:userId/:userTitleId: one delete, .single() fails when
\* it matched no row
RemoveTitleFromUser(a) ==
    /\ issue.build # "none"
    /\ issued.adm[a].pc = "idle"
    /\ \E userId \in UserInputs, userTitleId \in UserTitleIds, fails \in BOOLEAN :
          LET began == Begin(issued.adm, a, "remove", userId, userTitleId, issued.rows)
              row == issued.rows[userTitleId]
          IN IF fails \/ row.id = Null \/ row.user # userId
             THEN issued' = [issued EXCEPT !.adm = Respond(began, a, 500, NoUserTitle)]
             ELSE issued' = [rows |-> [issued.rows EXCEPT ![userTitleId] = NoUserTitle],
                             adm |-> Respond(began, a, 200, row)]
    /\ UNCHANGED <<validateVars, lookup, tokens>>

\* part_001 907-911: update({ active: false }).eq('user', userId).eq('active', true)
Deactivated(rows, userId, userTitleId) ==
    [id \in UserTitleIds |->
        IF rows[id].id # Null /\ rows[id].user = userId /\ rows[id].active
        THEN [rows[id] EXCEPT !.active = FALSE] ELSE rows[id]]

\* POST /titles/user/:userId/:userTitleId/activate, first update (905-913)
ActivateDeactivate(a) ==
    /\ issue.build = "unnamed/part_001"
    /\ issued.adm[a].pc = "idle"
    /\ \E userId \in UserInputs, userTitleId \in UserTitleIds, fails \in BOOLEAN :
          LET began == Begin(issued.adm, a, "activate", userId, userTitleId, issued.rows)
          IN IF fails
             THEN issued' = [issued EXCEPT !.adm = Respond(began, a, 500, NoUserTitle)]
             ELSE issued' = [rows |-> Deactivated(issued.rows, userId, userTitleId),
                             adm |-> [began EXCEPT ![a].pc = "activating"]]
    /\ UNCHANGED <<validateVars, lookup, tokens>>

\* second update (915-929): update({ active: true }).eq('id', userTitleId)
\* .eq('user', userId).select().single()
ActivateUpdate(a) ==
    /\ issued.adm[a].pc = "activating"
    /\ \E fails \in BOOLEAN :
          LET me == issued.adm[a]
              row == issued.rows[me.userTitleId]
              others == [b \in Admins |->
                            IF b # a /\ issued.adm[b].pc # "idle"
                            THEN [issued.adm[b] EXCEPT !.overlapped = TRUE]
                            ELSE issued.adm[b]]
          IN IF fails \/ row.id = Null \/ row.user # me.userId
             THEN issued' = [issued EXCEPT !.adm = Respond(others, a, 500, NoUserTitle)]
             ELSE issued' = [rows |-> [issued.rows EXCEPT ![me.userTitleId].active = TRUE],
                             adm |-> Respond(others, a, 200,
                                             [row EXCEPT !.active = TRUE])]
    /\ UNCHANGED <<validateVars, lookup, tokens>>

\* the response is sent, the administrator may call again
AdminReturn(a) ==
    /\ issued.adm[a].pc = "responded"
    /\ issued' = [issued EXCEPT !.adm[a] = AdminInit]
    /\ UNCHANGED <<validateVars, lookup, tokens>>

\* ------------------------------------------------- tokens of the riders
\* The users controller on table suports, called by two administrators at
\* once, and the first two gates of the validation handler on that table.
SuportUids == 1 .. MaxSuports

NoSuport == [uid |-> Null, user |-> Null, activation |-> Null]

NoTap == [suport |-> Null, status |-> "", user |-> Null]

SuportAdminInit ==
    [pc |-> "idle", op |-> "none", id |-> Null, uid |-> Null, status |-> 0]

\* rebound: history, the tokens that were given to a rider while bound to
\* another one
NoTokens ==
    [rows |-> [uid \in SuportUids |-> NoSuport],
     adm |-> [a \in Admins |-> SuportAdminInit],
     tap |-> NoTap,
     rebound |-> {}]

\* res.status(status).json(...)
SuportRespond(a, status) ==
    [tokens.adm EXCEPT ![a].pc = "responded", ![a].status = status]

\* users.js 489-499: the token is assigned neither to this rider nor to another
MayAssign(existingSuport, id) ==
    existingSuport.user # id /\ existingSuport.user = Null

\* POST /users/:id/suports, the read (459-468) and the branches on the row read
\* (473, 489-499)
AddSuportRead(a) ==
    /\ tokens.adm[a].pc = "idle"
    /\ \E id \in users, uid \in SuportUids, fails \in BOOLEAN :
          LET existingSuport == tokens.rows[uid]
              me == [SuportAdminInit EXCEPT !.op = "add", !.id = id, !.uid = uid]
          IN tokens' =
               [tokens EXCEPT !.adm[a] =
                   IF fails THEN [me EXCEPT !.pc = "responded", !.status = 500]
                   ELSE IF existingSuport.uid = Null THEN [me EXCEPT !.pc = "inserting"]
                   ELSE IF MayAssign(existingSuport, id) THEN [me EXCEPT !.pc = "updating"]
                   ELSE [me EXCEPT !.pc = "responded", !.status = 400]]
    /\ UNCHANGED <<validateVars, lookup, issued>>

\* 473-487: insert([{ uid, user: id, activation: nowStr }]); uid is the key of the
\* table, a second insert of it fails
AddSuportInsert(a) ==
    /\ tokens.adm[a].pc = "inserting"
    /\ \E fails \in BOOLEAN :
          LET me == tokens.adm[a]
          IN IF fails \/ tokens.rows[me.uid].uid # Null
             THEN tokens' = [tokens EXCEPT !.adm = SuportRespond(a, 500)]
             ELSE tokens' = [tokens EXCEPT
                                !.rows[me.uid] = [uid |-> me.uid, user |-> me.id,
                                                  activation |-> now],
                                !.adm = SuportRespond(a, 201)]
    /\ UNCHANGED <<validateVars, lookup, issued>>

\* 500-512: update({ user: id, activation: now }).eq('uid', uid)
AddSuportUpdate(a) ==
    /\ tokens.adm[a].pc = "updating"
    /\ \E fails \in BOOLEAN :
          LET me == tokens.adm[a]
          IN IF fails
             THEN tokens' = [tokens EXCEPT !.adm = SuportRespond(a, 500)]
             ELSE tokens' = [tokens EXCEPT
                                !.rows[me.uid] = [uid |-> me.uid, user |-> me.id,
                                                  activation |-> now],
                                !.adm = SuportRespond(a, 200),
                                !.rebound = IF tokens.rows[me.uid].user \notin {Null, me.id}
                                            THEN @ \cup {me.uid} ELSE @]
    /\ UNCHANGED <<validateVars, lookup, issued>>

\* DELETE /users/:id/suports/:uid (527-550): one update, .single() fails when it
\* matched no row
RemoveSuportFromUser(a) ==
    /\ tokens.adm[a].pc = "idle"
    /\ \E id \in users, uid \in SuportUids, fails \in BOOLEAN :
          LET me == [SuportAdminInit EXCEPT !.op = "remove", !.id = id, !.uid = uid,
                                            !.pc = "responded"]
              row == tokens.rows[uid]
          IN IF fails \/ row.uid = Null \/ row.user # id
             THEN tokens' = [tokens EXCEPT !.adm[a] = [me EXCEPT !.status = 500]]
             ELSE tokens' = [tokens EXCEPT
                                !.rows[uid] = [row EXCEPT !.user = Null,
                                                          !.activation = Null],
                                !.adm[a] = [me EXCEPT !.status = 200]]
    /\ UNCHANGED <<validateVars, lookup, issued>>

SuportAdminReturn(a) ==
    /\ tokens.adm[a].pc = "responded"
    /\ tokens' = [tokens EXCEPT !.adm[a] = SuportAdminInit]
    /\ UNCHANGED <<validateVars, lookup, issued>>

\* validation.js 113-143: gates 1 and 2 on the token, then the lookup of the
\* active product of suportData.user
ValidateSuport ==
    /\ \E suport \in SuportUids :
          LET suportData == tokens.rows[suport]
          IN tokens' = [tokens EXCEPT !.tap =
                 [suport |-> suport,
                  status |-> IF suportData.uid = Null THEN "ERROR_SUPORT_NOT_FOUND"
                             ELSE IF SuportInactive(suportData.activation, now)
                             THEN "ERROR_SUPORT_INACTIVE"
                             ELSE "user_titles",
                  user |-> suportData.user]]
    /\ UNCHANGED <<validateVars, lookup, issued>>

AdminIdle == lookup = NoLookup /\ issued = NoIssued /\ tokens = NoTokens

\* --------------------------------------------------------- specifications
NoZr == [origin |-> 0, numZones |-> 1, existing |-> {}, result |-> <<>>, done |-> FALSE]

\* the issued product as assignTitleToUser leaves it: never used
UsesChoices == {Null, 0, 1, 2}
ReEntryChoices == {Null, 2}
LinkChoices == {Null, 2}
NumZonesChoices == {1, 2}

NewUserTitle(uses, re_entry, link, num_zones, expiration, active) ==
    [id |-> UserTitleId, user |-> UserTitleUser, uses_left |-> uses,
     first_use |-> Null, expiration |-> expiration, re_entry |-> re_entry,
     zone_origin |-> Null, active |-> active, link |-> link, num_zones |-> num_zones]

InitCommon ==
    /\ now = 0
    /\ clockSeq = 0
    /\ user_title_zones = {}
    /\ validation = <<>>
    /\ pc = [p \in Procs |-> "idle"]
    /\ req = [p \in Procs |-> NoReq]
    /\ loc = [p \in Procs |-> LocInit]
    /\ nreq = 0
    /\ initWrites = <<>>
    /\ charged = 0
    /\ zr = NoZr
    /\ issue = NoIssue

\* concurrent requests on one active product
Init ==
    /\ InitCommon
    /\ AdminIdle
    /\ concurrent = TRUE
    /\ faulty = FALSE
    /\ \E uses \in UsesChoices, re \in ReEntryChoices, lk \in LinkChoices,
          nz \in NumZonesChoices :
          /\ user_title = NewUserTitle(uses, re, lk, nz, Null, TRUE)
          /\ uses0 = uses

Next == Tick \/ \E p \in Procs : Step(p)

Spec == Init /\ [][Next]_vars

\* concurrent requests on a product, all within one minute:
\* chargeable and free validations interleave, the clock does not move
WideNumZonesChoices == {2}

InitUses ==
    /\ InitCommon
    /\ AdminIdle
    /\ concurrent = TRUE
    /\ faulty = FALSE
    /\ \E uses \in UsesChoices, re \in ReEntryChoices, lk \in LinkChoices,
          nz \in WideNumZonesChoices :
          /\ user_title = NewUserTitle(uses, re, lk, nz, Null, TRUE)
          /\ uses0 = uses

NextUses == \E p \in Procs : Step(p)

SpecUses == InitUses /\ [][NextUses]_vars

\* one request at a time, any product and any input; createTitle accepts any
\* num_zones that is not undefined, 0 included
ExpirationChoices == {Null, 0}
ActiveChoices == {TRUE, FALSE}
SeqNumZonesChoices == {0, 1, 2}

InitSeq ==
    /\ InitCommon
    /\ AdminIdle
    /\ concurrent = FALSE
    /\ faulty = FALSE
    /\ \E uses \in UsesChoices, re \in ReEntryChoices, lk \in LinkChoices,
          nz \in SeqNumZonesChoices, ex \in ExpirationChoices, ac \in ActiveChoices :
          /\ user_title = NewUserTitle(uses, re, lk, nz, ex, ac)
          /\ uses0 = uses

SpecSeq == InitSeq /\ [][Next]_vars

\* one request at a time, and every store operation may fail
InitFault ==
    /\ InitCommon
    /\ AdminIdle
    /\ concurrent = FALSE
    /\ faulty = TRUE
    /\ \E uses \in UsesChoices, re \in ReEntryChoices, lk \in LinkChoices,
          nz \in NumZonesChoices :
          /\ user_title = NewUserTitle(uses, re, lk, nz, Null, TRUE)
          /\ uses0 = uses

SpecFault == InitFault /\ [][Next]_vars

\* the product is assigned, activated and then used, one operation at a time,
\* under either build of the titles controller
TitleUsesChoices == {Null, 1}
TitleExpirationChoices == {Null, 0, 1}
TitleNumZonesChoices == {1}

InitAssign ==
    /\ AdminIdle
    /\ now = 0
    /\ clockSeq = 0
    /\ user_title = NoRow
    /\ user_title_zones = {}
    /\ validation = <<>>
    /\ pc = [p \in Procs |-> "idle"]
    /\ req = [p \in Procs |-> NoReq]
    /\ loc = [p \in Procs |-> LocInit]
    /\ nreq = 0
    /\ faulty = FALSE
    /\ initWrites = <<>>
    /\ charged = 0
    /\ concurrent = FALSE
    /\ uses0 = Null
    /\ zr = NoZr
    /\ \E build \in Builds, uses \in TitleUsesChoices, days \in TitleExpirationChoices,
          re \in ReEntryChoices, lk \in LinkChoices, nz \in TitleNumZonesChoices :
          issue = [build |-> build,
                   title |-> [uses |-> uses, expiration |-> days, re_entry |-> re,
                              link |-> lk, num_zones |-> nz],
                   at |-> Null]

NextAssign == Next \/ AssignTitleToUser \/ ActivateTitleForUser

SpecAssign == InitAssign /\ [][NextAssign]_vars

\* the Zone Resolver alone, on every origin, zone count and set of existing zones
ZoneUniverse == -1 .. (MaxOrigin + MaxNumZones)

ResolveZones ==
    /\ ~zr.done
    /\ zr' = [zr EXCEPT !.result = userTitleZoneIdsOf(zr.origin, zr.numZones, zr.existing),
                        !.done = TRUE]
    /\ UNCHANGED <<now, clockSeq, storeVars, pc, req, loc, nreq, faulty,
                   initWrites, charged, concurrent, uses0, issue, adminVars>>

InitZR ==
    /\ AdminIdle
    /\ now = 0
    /\ clockSeq = 0
    /\ user_title = NoRow
    /\ user_title_zones = {}
    /\ validation = <<>>
    /\ pc = [p \in Procs |-> "idle"]
    /\ req = [p \in Procs |-> NoReq]
    /\ loc = [p \in Procs |-> LocInit]
    /\ nreq = 0
    /\ faulty = FALSE
    /\ initWrites = <<>>
    /\ charged = 0
    /\ concurrent = FALSE
    /\ uses0 = Null
    /\ issue = NoIssue
    /\ \E origin \in 0 .. MaxOrigin, numZones \in 1 .. MaxNumZones,
          existing \in SUBSET ZoneUniverse :
          zr = [origin |-> origin, numZones |-> numZones, existing |-> existing,
                result |-> <<>>, done |-> FALSE]

NextZR == ResolveZones

SpecZR == InitZR /\ [][NextZR]_vars

\* the message catalog alone: two tags looked up, one with additional data
InitMsg ==
    /\ InitCommon
    /\ concurrent = FALSE
    /\ faulty = FALSE
    /\ user_title = NoRow
    /\ uses0 = Null
    /\ \E a \in TagInputs, b \in TagInputs, data \in AdditionalDataInputs :
          lookup = [NoLookup EXCEPT !.a = a, !.b = b, !.data = data]
    /\ issued = NoIssued
    /\ tokens = NoTokens

NextMsg == GetMessage \/ GetMessageWithData

SpecMsg == InitMsg /\ [][NextMsg]_vars

\* the titles controller of either build on the products of two riders, two
\* administrators at once, any store operation may fail
InitTitles ==
    /\ InitAssign
    /\ issue.title.uses = 1
    /\ issue.title.expiration = 1
    /\ issue.title.re_entry = 2
    /\ issue.title.link = 2

NextTitles ==
    \E a \in Admins :
        \/ AssignTitle(a)
        \/ RemoveTitleFromUser(a)
        \/ ActivateDeactivate(a)
        \/ ActivateUpdate(a)
        \/ AdminReturn(a)

SpecTitles == InitTitles /\ [][NextTitles]_vars

\* the users controller on the tokens of two riders, two administrators at
\* once, any store operation may fail, and taps of the tokens
InitSuports ==
    /\ InitCommon
    /\ AdminIdle
    /\ concurrent = FALSE
    /\ faulty = FALSE
    /\ user_title = NoRow
    /\ uses0 = Null

NextSuports ==
    \/ ValidateSuport
    \/ \E a \in Admins :
          \/ AddSuportRead(a)
          \/ AddSuportInsert(a)
          \/ AddSuportUpdate(a)
          \/ RemoveSuportFromUser(a)
          \/ SuportAdminReturn(a)

SpecSuports == InitSuports /\ [][NextSuports]_vars

\* ------------------------------------------------------------------ claims
Responded(p) == pc[p] = "responded"

\* the most recent event of a product in a ledger
LastEventOf(ledger, utid) ==
    LET mine == {i \in 1 .. Len(ledger) : ledger[i].user_title = utid}
    IN IF mine = {} THEN [station |-> Null, timestamp |-> Null]
       ELSE LET i == CHOOSE i \in mine : \A j \in mine : ledger[j].seq <= ledger[i].seq
            IN [station |-> ledger[i].station, timestamp |-> ledger[i].timestamp]

\* the zones a product covers when it is first used at a station
CoveredFrom(origin, n) == {z \in zones : origin - (n - 1) <= z /\ z <= origin + (n - 1)}

\* the outcome the ordered gates give a request on store S, when gates 2, 5, 7
\* and 9 read the clock at t2, t5, t7 and t9
FirstFailingGate(S, suport, station, t2, t5, t7, t9) ==
    LET ut == S.user_title
        stz == stations[station].zones
        last == LastEventOf(S.validation, ut.id)
        stored == {r[2] : r \in {x \in S.user_title_zones : x[1] = ut.id}}
        covered == IF ut.first_use = Null THEN CoveredFrom(MinOf(stz), ut.num_zones)
                   ELSE stored
        free == /\ ut.link # Null
                /\ last.station # Null
                /\ last.station # station
                /\ t9 - last.timestamp < ut.link
    IN IF suport \notin DOMAIN suports THEN "ERROR_SUPORT_NOT_FOUND"
       ELSE IF suports[suport].activation = Null \/ suports[suport].activation > t2
       THEN "ERROR_SUPORT_INACTIVE"
       ELSE IF station \notin DOMAIN stations THEN "ERROR_STATION_NOT_AVAILABLE"
       ELSE IF ~stations[station].available THEN "ERROR_STATION_NOT_AVAILABLE"
       ELSE IF ~(ut.user = suports[suport].user /\ ut.active)
       THEN "ERROR_NO_USER_TITLE_ACTIVE"
       ELSE IF ut.expiration # Null /\ ut.expiration < t5 THEN "ERROR_USER_TITLE_EXPIRED"
       ELSE IF ut.first_use = Null /\ stz = {} THEN "ERROR_CANNOT_INITIALIZE_USER_TITLE"
       ELSE IF ut.first_use = Null /\ covered = {}
       THEN "ERROR_CANNOT_INITIALIZE_USER_TITLE"
       ELSE IF /\ ut.re_entry # Null
               /\ last.station = station
               /\ t7 - last.timestamp < ut.re_entry
       THEN "ERROR_REENTRY_TIME_NOT_PASSED"
       ELSE IF covered \cap stz = {} THEN "ERROR_USER_TITLE_NOT_VALID_FOR_ZONE"
       ELSE IF ~free /\ ut.uses_left # Null /\ ut.uses_left <= 0 THEN "ERROR_NO_USES_LEFT"
       ELSE "VALIDATION_SUCCESS"

\* C1: with no concurrent writer (and no store failure) the response of validate
\* is the denial of the first gate that fails on the store the request found, in
\* the order token, activation, station, active product, expiration,
\* initialization, re-entry, zone coverage, remaining uses, and it is a success
\* only if no gate fails
C1_GateOrder ==
    \A p \in Procs :
        (Responded(p) /\ loc[p].status # "ERROR_MISSING_PARAMETERS") =>
            \E t2 \in loc[p].t0 .. loc[p].t1 : \E t5 \in t2 .. loc[p].t1 :
            \E t7 \in t5 .. loc[p].t1 : \E t9 \in t7 .. loc[p].t1 :
                loc[p].status = FirstFailingGate(loc[p].snap, req[p].suport,
                                                 req[p].station, t2, t5, t7, t9)

\* a request denied at the zone gate although its product has no use left: the
\* earlier gate's denial is the one returned
C1_Witness ==
    \E p \in Procs :
        /\ Responded(p)
        /\ loc[p].status = "ERROR_USER_TITLE_NOT_VALID_FOR_ZONE"
        /\ loc[p].snap.user_title.uses_left = 0
        /\ loc[p].snap.user_title.first_use # Null

\* the request of a handler has been denied with one of the nine domain denials
Denials ==
    {"ERROR_SUPORT_NOT_FOUND", "ERROR_SUPORT_INACTIVE", "ERROR_STATION_NOT_AVAILABLE",
     "ERROR_NO_USER_TITLE_ACTIVE", "ERROR_USER_TITLE_EXPIRED",
     "ERROR_CANNOT_INITIALIZE_USER_TITLE", "ERROR_REENTRY_TIME_NOT_PASSED",
     "ERROR_USER_TITLE_NOT_VALID_FOR_ZONE", "ERROR_NO_USES_LEFT"}

\* the covered-zone rows of the product in the store
StoredZones == {r[2] : r \in {x \in user_title_zones : x[1] = user_title.id}}

\* the ledger's events in the order their timestamps were captured
Earlier(a, b) == a.seq < b.seq
Consecutive(a, b) ==
    /\ Earlier(a, b)
    /\ ~\E i \in 1 .. Len(validation) : Earlier(a, validation[i]) /\ Earlier(validation[i], b)

\* C2: for a product assigned with a finite uses_left = n, under any interleaving
\* of validate requests the chargeable successes never exceed n and the stored
\* uses_left is n minus the number of chargeable successes
C2_NoLostDecrement ==
    uses0 # Null =>
        /\ charged <= uses0
        /\ user_title.uses_left = uses0 - charged

\* C3: concurrent first uses at stations with different lowest zones initialize
\* the product once; whenever no insert of covered zones is pending, the stored
\* covered zones are the Zone Resolver's result for the stored zone_origin
C3_OneOriginOneZoneSet ==
    /\ \A i, j \in 1 .. Len(initWrites) :
          i # j => initWrites[i].zone_origin = initWrites[j].zone_origin
    /\ ((\A p \in Procs : pc[p] # "init_insert") /\ user_title.zone_origin # Null)
          => StoredZones = CoveredFrom(user_title.zone_origin, user_title.num_zones)

\* C4: of two concurrent first uses at the same station one initializes the
\* product and the other goes on with the values of the first: the writes of
\* first_use and zone_origin made at one station carry one value, and a request
\* at the station of every initialization is not answered with a failure
C4_InitOnceSameStation ==
    /\ \A i, j \in 1 .. Len(initWrites) :
          initWrites[i].station = initWrites[j].station
              => initWrites[i] = initWrites[j]
    /\ \A p \in Procs :
          (/\ Responded(p)
           /\ Len(initWrites) > 0
           /\ \A i \in 1 .. Len(initWrites) : initWrites[i].station = req[p].station)
              => loc[p].status # "ERROR_INTERNAL_SERVER"

\* C5: the attempts on a product are serialized: an event is never followed by
\* an event at the same station inside the re_entry window, and an event is
\* free exactly when the event before it is at another station inside the link
\* window
C5_SerializedHistory ==
    \A i, j \in 1 .. Len(validation) :
        LET a == validation[i]
            b == validation[j]
        IN Consecutive(a, b) =>
            /\ user_title.re_entry # Null =>
                  ~(a.station = b.station /\ b.timestamp - a.timestamp < user_title.re_entry)
            /\ b.free <=> /\ user_title.link # Null
                          /\ a.station # b.station
                          /\ b.timestamp - a.timestamp < user_title.link

\* C6: a request answered with a domain denial leaves the store as it found it
C6_DenialWritesNothing ==
    \A p \in Procs :
        (Responded(p) /\ loc[p].status \in Denials) =>
            /\ user_title = loc[p].snap.user_title
            /\ user_title_zones = loc[p].snap.user_title_zones
            /\ validation = loc[p].snap.validation

\* C7: a request answered ERROR_INTERNAL_SERVER has left neither a validation
\* event nor a decrement of uses_left
C7_CommitAllOrNothing ==
    \A p \in Procs :
        (Responded(p) /\ loc[p].status = "ERROR_INTERNAL_SERVER") =>
            /\ "validation" \notin loc[p].writes
            /\ "uses_left" \notin loc[p].writes

\* C8: a request one of whose store operations failed is answered
\* ERROR_INTERNAL_SERVER, not a domain denial and not a success
C8_StoreErrorIsInternalError ==
    \A p \in Procs :
        (Responded(p) /\ loc[p].erred) => loc[p].status = "ERROR_INTERNAL_SERVER"

\* C9: whenever no insert of covered zones is pending, the product has first_use
\* and zone_origin set if and only if it has covered-zone rows
C9_InitAtomic ==
    (\A p \in Procs : pc[p] # "init_insert") =>
        /\ (user_title.first_use # Null) <=> (StoredZones # {})
        /\ (user_title.zone_origin # Null) <=> (StoredZones # {})

\* C10: the covered set computed at first use is exactly the zones within
\* num_zones - 1 of the origin that exist; a missing zone is not replaced by a
\* farther one
C10_ZoneResolver ==
    zr.done =>
        /\ Range(zr.result) =
              {z \in zr.existing : zr.origin - (zr.numZones - 1) <= z
                                   /\ z <= zr.origin + (zr.numZones - 1)}
        /\ Len(zr.result) = Cardinality(Range(zr.result))
        /\ (zr.origin = 4 /\ zr.numZones = 3 /\ zr.existing = 0 .. (MaxOrigin + MaxNumZones))
              => Range(zr.result) = {2, 3, 4, 5, 6}
        /\ (zr.origin = 1 /\ zr.numZones = 3 /\ zr.existing = 0 .. (MaxOrigin + MaxNumZones))
              => Range(zr.result) = {0, 1, 2, 3}

\* the resolver has run on origin 1 with three zones while zone -1 is absent
C10_Witness ==
    /\ zr.done
    /\ zr.origin = 1
    /\ zr.numZones = 3
    /\ -1 \notin zr.existing
    /\ Range(zr.result) = {0, 1, 2, 3}

\* what a request found on arrival: the product row, its covered zones, its most
\* recent event, and the token and station of the request
SnapTitle(p) == loc[p].snap.user_title
SnapZones(p) ==
    {r[2] : r \in {x \in loc[p].snap.user_title_zones : x[1] = SnapTitle(p).id}}
SnapLast(p) == LastEventOf(loc[p].snap.validation, SnapTitle(p).id)

\* the request names an existing token, active since before it arrived
TokenActive(p) ==
    /\ req[p].suport \in DOMAIN suports
    /\ suports[req[p].suport].activation # Null
    /\ suports[req[p].suport].activation <= loc[p].t0

\* the request names an existing, available station
StationAvailable(p) ==
    /\ req[p].station \in DOMAIN stations
    /\ stations[req[p].station].available

\* the rider of the token holds the product and it is active
ProductActive(p) ==
    /\ SnapTitle(p).user = suports[req[p].suport].user
    /\ SnapTitle(p).active

\* gates 1 to 5 pass whenever the request reads the clock
PassesGates1to5(p) ==
    /\ TokenActive(p)
    /\ StationAvailable(p)
    /\ ProductActive(p)
    /\ SnapTitle(p).expiration = Null \/ SnapTitle(p).expiration >= loc[p].t1

StoreAsFound(p) ==
    /\ user_title = loc[p].snap.user_title
    /\ user_title_zones = loc[p].snap.user_title_zones
    /\ validation = loc[p].snap.validation

\* C11: a never-used product that passed gates 1 to 5 is denied
\* ERROR_CANNOT_INITIALIZE_USER_TITLE when the station has no zone or when no
\* existing zone lies within num_zones - 1 of the station's lowest zone, and then
\* first_use, zone_origin and the covered zones stay unset
C11_CannotInitialize ==
    \A p \in Procs :
        (/\ Responded(p)
         /\ req[p].suport # 0 /\ req[p].station # 0
         /\ PassesGates1to5(p)
         /\ SnapTitle(p).first_use = Null
         /\ LET stz == stations[req[p].station].zones
            IN stz = {} \/ CoveredFrom(MinOf(stz), SnapTitle(p).num_zones) = {})
            => /\ loc[p].status = "ERROR_CANNOT_INITIALIZE_USER_TITLE"
               /\ user_title.first_use = Null
               /\ user_title.zone_origin = Null
               /\ StoredZones = {}
               /\ loc[p].writes = {}

\* a product with num_zones = 0 tapped at a station that has a zone
C11_Witness ==
    \E p \in Procs :
        /\ Responded(p)
        /\ loc[p].status = "ERROR_CANNOT_INITIALIZE_USER_TITLE"
        /\ stations[req[p].station].zones # {}
        /\ SnapTitle(p).num_zones = 0

\* C12: a request with an existing token whose activation is null or later than
\* the request is denied ERROR_SUPORT_INACTIVE, whatever the station, the
\* product, the zones and the ledger are
C12_InactiveToken ==
    \A p \in Procs :
        (/\ Responded(p)
         /\ req[p].station # 0
         /\ req[p].suport \in DOMAIN suports
         /\ \/ suports[req[p].suport].activation = Null
            \/ suports[req[p].suport].activation > loc[p].t1)
            => /\ loc[p].status = "ERROR_SUPORT_INACTIVE"
               /\ StoreAsFound(p)

\* a token with a null activation at a station that does not exist, after the
\* product has been used
C12_Witness ==
    \E p \in Procs :
        /\ Responded(p)
        /\ loc[p].status = "ERROR_SUPORT_INACTIVE"
        /\ suports[req[p].suport].activation = Null
        /\ req[p].station \notin DOMAIN stations
        /\ Len(validation) > 0

\* C13: a request on an active product whose expiration lies before the request
\* (token active, station available) is denied ERROR_USER_TITLE_EXPIRED, also when
\* the zones match and uses remain, and it has written nothing
C13_Expired ==
    \A p \in Procs :
        (/\ Responded(p)
         /\ req[p].suport # 0 /\ req[p].station # 0
         /\ TokenActive(p)
         /\ StationAvailable(p)
         /\ ProductActive(p)
         /\ SnapTitle(p).expiration # Null
         /\ SnapTitle(p).expiration < loc[p].t0)
            => /\ loc[p].status = "ERROR_USER_TITLE_EXPIRED"
               /\ loc[p].writes = {}
               /\ StoreAsFound(p)

\* an expired, never-used product with two uses left, tapped at a station whose
\* zone it would cover
C13_Witness ==
    \E p \in Procs :
        /\ Responded(p)
        /\ loc[p].status = "ERROR_USER_TITLE_EXPIRED"
        /\ SnapTitle(p).first_use = Null
        /\ SnapTitle(p).uses_left = 2
        /\ SnapTitle(p).num_zones = 1
        /\ req[p].station = 1

\* C14: the expiration of an issued product is null until its first successful
\* tap, and from then on it is first_use plus the validity days of the template
C14_ExpirationSetAtFirstTap ==
    user_title.id # Null =>
        /\ user_title.first_use = Null => user_title.expiration = Null
        /\ (user_title.first_use # Null /\ issue.title.expiration # Null)
              => user_title.expiration =
                    user_title.first_use + issue.title.expiration * MinutesPerDay

\* C14 as amended: the expiration is computed when the product is assigned, null
\* for a template without validity days and otherwise the date of the assignment
\* plus the validity days (to the second in controllers/titles.js, the midnight
\* starting that day in part_001), and no tap changes it
C14_ExpirationSetAtAssignment ==
    user_title.id # Null =>
        LET days == issue.title.expiration
            due == issue.at + days * MinutesPerDay
        IN /\ days = Null => user_title.expiration = Null
           /\ (days # Null /\ issue.build = "controllers/titles.js")
                 => user_title.expiration = due
           /\ (days # Null /\ issue.build = "unnamed/part_001")
                 => /\ user_title.expiration <= due
                    /\ due - user_title.expiration < MinutesPerDay
                    /\ user_title.expiration % MinutesPerDay = 0

\* a product assigned with one day of validity and first used a minute later:
\* its expiration is still the one of the assignment
C14_Witness ==
    /\ user_title.id # Null
    /\ user_title.first_use # Null
    /\ issue.at < user_title.first_use
    /\ issue.title.expiration = 1
    /\ Len(validation) > 0
    /\ user_title.expiration # user_title.first_use + MinutesPerDay

\* the zones the product covers for a request: the stored ones, or for a
\* never-used product the ones its initialization at the station gives
CoveredFor(p) ==
    LET stz == stations[req[p].station].zones
    IN IF SnapTitle(p).first_use # Null THEN SnapZones(p)
       ELSE IF stz = {} THEN {}
       ELSE CoveredFrom(MinOf(stz), SnapTitle(p).num_zones)

\* the most recent event the request found is at its station and, at minute t,
\* younger than re_entry
InsideReentryAt(p, t) ==
    /\ SnapTitle(p).re_entry # Null
    /\ SnapLast(p).station = req[p].station
    /\ t - SnapLast(p).timestamp < SnapTitle(p).re_entry

\* the most recent event the request found is at another station and, at minute
\* t, younger than link
InsideLinkAt(p, t) ==
    /\ SnapTitle(p).link # Null
    /\ SnapLast(p).station # Null
    /\ SnapLast(p).station # req[p].station
    /\ t - SnapLast(p).timestamp < SnapTitle(p).link

\* gates 1 to 8 pass whenever the request reads the clock
PassesGates1to8(p) ==
    /\ PassesGates1to5(p)
    /\ CoveredFor(p) \cap stations[req[p].station].zones # {}
    /\ ~InsideReentryAt(p, loc[p].t0)

Asked(p) == Responded(p) /\ req[p].suport # 0 /\ req[p].station # 0

Succeeded(p) == Responded(p) /\ loc[p].status = "VALIDATION_SUCCESS"

\* C15: the re-entry gate denies only when the most recent event of the product
\* is at the station of the request and less than re_entry minutes old (a tap at
\* another station inside the window is not denied on re-entry grounds), and a
\* request that passed gates 1 to 6 and finds such an event is denied
\* ERROR_REENTRY_TIME_NOT_PASSED
C15_ReentryGate ==
    \A p \in Procs :
        Asked(p) =>
            /\ loc[p].status = "ERROR_REENTRY_TIME_NOT_PASSED"
                  => InsideReentryAt(p, loc[p].t0)
            /\ (/\ PassesGates1to5(p)
                /\ SnapTitle(p).first_use # Null
                /\ InsideReentryAt(p, loc[p].t1))
                  => /\ loc[p].status = "ERROR_REENTRY_TIME_NOT_PASSED"
                     /\ StoreAsFound(p)

\* a second tap at the station of the last event, one minute after it, inside
\* the re_entry window
C15_Witness ==
    \E p \in Procs :
        /\ Responded(p)
        /\ loc[p].status = "ERROR_REENTRY_TIME_NOT_PASSED"
        /\ SnapLast(p).station = req[p].station
        /\ loc[p].t0 = SnapLast(p).timestamp + 1

\* C16: a validation is marked free only when the most recent event of the
\* product is at another station and less than link minutes old, and then it
\* succeeds and leaves uses_left as it was; a success that is not free on a
\* product with counted uses leaves one use less
C16_FreeTransferGate ==
    \A p \in Procs :
        Asked(p) =>
            /\ loc[p].isFreeValidation => InsideLinkAt(p, loc[p].t0)
            /\ (Succeeded(p) /\ InsideLinkAt(p, loc[p].t1)) => loc[p].isFreeValidation
            /\ (Succeeded(p) /\ loc[p].isFreeValidation)
                  => /\ user_title.uses_left = SnapTitle(p).uses_left
                     /\ validation[Len(validation)].free
            /\ (Succeeded(p) /\ ~InsideLinkAt(p, loc[p].t0)
                 /\ SnapTitle(p).uses_left # Null)
                  => /\ user_title.uses_left = SnapTitle(p).uses_left - 1
                     /\ ~validation[Len(validation)].free

\* after a chargeable tap at station 1 that took uses_left from 2 to 1, a tap at
\* station 2 a minute later, sharing zone 2, succeeds as free with uses_left 1
C16_Witness ==
    \E p \in Procs :
        /\ Succeeded(p)
        /\ loc[p].isFreeValidation
        /\ req[p].station = 2
        /\ SnapLast(p).station = 1
        /\ loc[p].t0 = SnapLast(p).timestamp + 1
        /\ uses0 = 2
        /\ user_title.uses_left = 1

\* the request finds a ledger ending with a chargeable event at its own station
\* followed by a free event at another station, the latter inside the link window
TapsABThenA(p) ==
    LET ledger == loc[p].snap.validation
        n == Len(ledger)
    IN /\ Asked(p)
       /\ n >= 2
       /\ ledger[n - 1].station = req[p].station
       /\ ~ledger[n - 1].free
       /\ ledger[n].station # req[p].station
       /\ ledger[n].free
       /\ SnapTitle(p).link # Null
       /\ loc[p].t1 - ledger[n].timestamp < SnapTitle(p).link

\* C17: after a chargeable tap at A and a free tap at B, a tap at A inside the
\* link window is not marked free by the free-transfer gate
C17_ThirdTapNotFree ==
    \A p \in Procs : TapsABThenA(p) => ~loc[p].isFreeValidation

\* C17 as amended: after a chargeable tap at A and a free tap at B, a tap at A
\* inside the link window passes the re-entry gate, because the most recent
\* event is the one at B, and is marked free by the free-transfer gate for the
\* same reason: it succeeds and consumes no use
C17_ThirdTapFree ==
    \A p \in Procs :
        (TapsABThenA(p) /\ PassesGates1to5(p)) =>
            /\ loc[p].status = "VALIDATION_SUCCESS"
            /\ loc[p].isFreeValidation
            /\ user_title.uses_left = SnapTitle(p).uses_left

\* the third tap, at A again, inside the re_entry window of the first tap at A
C17_Witness ==
    \E p \in Procs :
        /\ TapsABThenA(p)
        /\ Succeeded(p)
        /\ loc[p].isFreeValidation
        /\ SnapTitle(p).re_entry # Null
        /\ loc[p].t1 - loc[p].snap.validation[Len(loc[p].snap.validation) - 1].timestamp
              < SnapTitle(p).re_entry

\* C18: gate 10 is skipped for a free validation: a request that passes gates 1
\* to 8 and is inside the link window succeeds whatever uses_left is, 0
\* included, and leaves uses_left unchanged; ERROR_NO_USES_LEFT is answered only
\* to a validation that is not free on a product with non-null uses_left <= 0
C18_FreeSkipsUsesGate ==
    \A p \in Procs :
        Asked(p) =>
            /\ (PassesGates1to8(p) /\ InsideLinkAt(p, loc[p].t1))
                  => /\ loc[p].status = "VALIDATION_SUCCESS"
                     /\ loc[p].uses_left = SnapTitle(p).uses_left
                     /\ user_title.uses_left = SnapTitle(p).uses_left
            /\ loc[p].status = "ERROR_NO_USES_LEFT"
                  => /\ ~loc[p].isFreeValidation
                     /\ ~InsideLinkAt(p, loc[p].t1)
                     /\ SnapTitle(p).uses_left # Null
                     /\ SnapTitle(p).uses_left <= 0

\* a free transfer on a product whose uses_left is 0
C18_Witness ==
    \E p \in Procs :
        /\ Succeeded(p)
        /\ loc[p].isFreeValidation
        /\ SnapTitle(p).uses_left = 0
        /\ user_title.uses_left = 0

\* C19: a request on a product with uses_left = 0 and link = null that passes
\* the gates of token, station, product, expiration, initialization, re-entry
\* and zone coverage is answered ERROR_NO_USES_LEFT and records no event
C19_UsesExhausted ==
    \A p \in Procs :
        (/\ Asked(p)
         /\ SnapTitle(p).uses_left = 0
         /\ SnapTitle(p).link = Null
         /\ PassesGates1to8(p))
            => /\ loc[p].status = "ERROR_NO_USES_LEFT"
               /\ validation = loc[p].snap.validation
               /\ user_title.uses_left = 0

\* a product assigned with one use, used once, tapped again where it is valid
C19_Witness ==
    \E p \in Procs :
        /\ Responded(p)
        /\ loc[p].status = "ERROR_NO_USES_LEFT"
        /\ SnapTitle(p).link = Null
        /\ uses0 = 1
        /\ Len(validation) = 1

\* C20: a successful request, with no other request on the product, has
\* appended exactly one event, that of its rider, token, station and product,
\* has persisted uses_left minus one if it is not free and uses_left is not
\* null and has left uses_left alone otherwise, and its response carries the
\* persisted uses_left
C20_Commit ==
    \A p \in Procs :
        Succeeded(p) =>
            LET before == loc[p].snap.validation
                n == Len(validation)
            IN /\ n = Len(before) + 1
               /\ SubSeq(validation, 1, n - 1) = before
               /\ validation[n].user = suports[req[p].suport].user
               /\ validation[n].suport = req[p].suport
               /\ validation[n].station = req[p].station
               /\ validation[n].user_title = SnapTitle(p).id
               /\ validation[n].timestamp \in loc[p].t0 .. loc[p].t1
               /\ user_title.uses_left =
                     IF ~loc[p].isFreeValidation /\ SnapTitle(p).uses_left # Null
                     THEN SnapTitle(p).uses_left - 1
                     ELSE SnapTitle(p).uses_left
               /\ loc[p].uses_left = user_title.uses_left
               /\ [user_title EXCEPT !.uses_left = Null, !.first_use = Null,
                                     !.zone_origin = Null]
                     = [SnapTitle(p) EXCEPT !.uses_left = Null, !.first_use = Null,
                                            !.zone_origin = Null]

\* the second chargeable success of a product assigned with two uses
C20_Witness ==
    \E p \in Procs :
        /\ Succeeded(p)
        /\ ~loc[p].isFreeValidation
        /\ SnapTitle(p).uses_left = 1
        /\ user_title.uses_left = 0
        /\ Len(validation) = 2

\* C21: the ledger is append-only and holds only the events of successful
\* requests: a request that is answered has left the events it found in place,
\* followed by one event of its own if and only if its answer is a success
C21_LedgerOnlySuccesses ==
    \A p \in Procs :
        Responded(p) =>
            LET before == loc[p].snap.validation
            IN IF loc[p].status = "VALIDATION_SUCCESS"
               THEN /\ Len(validation) = Len(before) + 1
                    /\ SubSeq(validation, 1, Len(before)) = before
               ELSE validation = before

\* C24: a request that finds first_use set leaves first_use, zone_origin and the
\* covered zones as it found them, and its zone gate is decided by the covered
\* zones it found: it is denied ERROR_USER_TITLE_NOT_VALID_FOR_ZONE if they
\* share no zone with the station, and never with that tag if they share one
C24_FirstUseWriteOnce ==
    \A p \in Procs :
        (Asked(p) /\ PassesGates1to5(p) /\ SnapTitle(p).first_use # Null) =>
            /\ user_title.first_use = SnapTitle(p).first_use
            /\ user_title.zone_origin = SnapTitle(p).zone_origin
            /\ user_title_zones = loc[p].snap.user_title_zones
            /\ "first_use" \notin loc[p].writes
            /\ "user_title_zones" \notin loc[p].writes
            /\ (SnapZones(p) \cap stations[req[p].station].zones = {}
                /\ ~InsideReentryAt(p, loc[p].t0))
                  => loc[p].status = "ERROR_USER_TITLE_NOT_VALID_FOR_ZONE"
            /\ SnapZones(p) \cap stations[req[p].station].zones # {}
                  => loc[p].status # "ERROR_USER_TITLE_NOT_VALID_FOR_ZONE"

\* a product first used at station 1 with one zone, tapped later at station 2,
\* whose lowest zone would give another covered set: the stored set decides
C24_Witness ==
    \E p \in Procs :
        /\ Responded(p)
        /\ loc[p].status = "ERROR_USER_TITLE_NOT_VALID_FOR_ZONE"
        /\ SnapTitle(p).first_use # Null
        /\ SnapTitle(p).zone_origin = 1
        /\ req[p].station = 2
        /\ user_title_zones = {<<UserTitleId, 1>>}

\* C26: a request without token id or without station id is answered
\* ERROR_MISSING_PARAMETERS at once: it has read no table and written nothing
C26_MissingParameters ==
    \A p \in Procs :
        (Responded(p) /\ (req[p].suport = 0 \/ req[p].station = 0)) =>
            /\ loc[p].status = "ERROR_MISSING_PARAMETERS"
            /\ loc[p].t1 = loc[p].t0
            /\ loc[p].user = Null
            /\ loc[p].userTitleData = NoRow
            /\ loc[p].writes = {}
            /\ StoreAsFound(p)

\* a request with a valid token and no station, on a product already in use
C26_Witness ==
    \E p \in Procs :
        /\ Responded(p)
        /\ req[p].suport = 1
        /\ req[p].station = 0
        /\ loc[p].status = "ERROR_MISSING_PARAMETERS"
        /\ Len(validation) > 0

\* C28: a request that has initialized the product at its station is not denied
\* ERROR_USER_TITLE_NOT_VALID_FOR_ZONE: the covered zones it stored hold the
\* origin, which is a zone of the station
C28_InitCoversStation ==
    \A p \in Procs :
        (Responded(p) /\ "user_title_zones" \in loc[p].writes) =>
            /\ loc[p].status # "ERROR_USER_TITLE_NOT_VALID_FOR_ZONE"
            /\ user_title.zone_origin \in StoredZones
            /\ user_title.zone_origin \in stations[req[p].station].zones
            /\ StoredZones \cap stations[req[p].station].zones # {}

\* a request that initialized a two-zone product at station 2 and went on to
\* succeed
C28_Witness ==
    \E p \in Procs :
        /\ Succeeded(p)
        /\ "user_title_zones" \in loc[p].writes
        /\ req[p].station = 2
        /\ StoredZones = {1, 2, 3}

\* C29: the stored uses_left of a product assigned with uses_left null or >= 0
\* is never negative, whatever the interleaving of free and chargeable requests
C29_UsesNeverNegative ==
    /\ uses0 = Null => user_title.uses_left = Null
    /\ (uses0 # Null /\ uses0 >= 0)
          => /\ user_title.uses_left # Null
             /\ user_title.uses_left >= 0
             /\ user_title.uses_left <= uses0

\* two chargeable successes that overlapped on the last use of the product
C29_Witness ==
    /\ uses0 = 1
    /\ user_title.uses_left = 0
    /\ charged = 2
    /\ \E i \in 1 .. Len(validation) : validation[i].free

\* both tags have been looked up
LookedUp == lookup.gotA # NoMessage /\ lookup.gotB # NoMessage

Quiescent == \A a \in Admins : issued.adm[a].pc \in {"idle", "responded"}

\* C22: once the assignTitleToUser, activateTitleForUser and removeTitleFromUser
\* operations called so far have completed, every rider has at most one issued
\* product with active = true
C22_OneActivePerRider ==
    Quiescent => \A u \in users : Cardinality(ActiveOf(issued.rows, u)) <= 1

\* administrator a has answered an activation
Activated(a) == issued.adm[a].pc = "responded" /\ issued.adm[a].op = "activate"

\* C23: activation is atomic: no rider ever has two active products, an
\* activation that succeeded has left the rider with exactly the requested
\* product active, and one that failed, with no other operation between its
\* start and its answer, has left the rider's active product as it was
C23_ActivationAtomic ==
    issue.build = "unnamed/part_001" =>
        /\ \A u \in users : Cardinality(ActiveOf(issued.rows, u)) <= 1
        /\ \A a \in Admins :
              (Activated(a) /\ ~issued.adm[a].overlapped) =>
                  LET me == issued.adm[a]
                  IN IF me.res.status = 200
                     THEN ActiveOf(issued.rows, me.userId) = {me.userTitleId}
                     ELSE ActiveOf(issued.rows, me.userId)
                             = ActiveOf(me.before, me.userId)

\* administrator a has answered an assignment with 201
Assigned(a) ==
    /\ issued.adm[a].pc = "responded"
    /\ issued.adm[a].op = "assign"
    /\ issued.adm[a].res.status = 201

\* C25: assignTitleToUser stores the product inactive, with first_use and
\* zone_origin null and uses_left, link, re_entry and num_zones of the template,
\* changes no other product (none changes between its start and its answer
\* unless another operation ran), and its response reports the values it stored
C25_AssignInactive ==
    \A a \in Admins :
        Assigned(a) =>
            LET me == issued.adm[a]
                row == issued.rows[me.userTitleId]
            IN /\ row.id = me.userTitleId
               /\ row.user = me.userId
               /\ ~row.active
               /\ row.first_use = Null /\ row.zone_origin = Null
               /\ row.uses_left = issue.title.uses
               /\ row.link = issue.title.link
               /\ row.re_entry = issue.title.re_entry
               /\ row.num_zones = issue.title.num_zones
               /\ ~me.overlapped
                     => \A id \in UserTitleIds \ {me.userTitleId} :
                           issued.rows[id] = me.before[id]
               /\ me.res.body = row

\* a token with no owning rider has a null activation
UnownedHasNoActivation ==
    \A uid \in SuportUids :
        (tokens.rows[uid].uid # Null /\ tokens.rows[uid].user = Null)
            => tokens.rows[uid].activation = Null

\* a tap of a token without rider is denied ERROR_SUPORT_INACTIVE, and the
\* lookup of the active product is reached with a rider
UnownedTapDenied ==
    /\ (tokens.tap.suport # Null /\ tokens.tap.user = Null
         /\ tokens.tap.status # "ERROR_SUPORT_NOT_FOUND")
          => tokens.tap.status = "ERROR_SUPORT_INACTIVE"
    /\ tokens.tap.status = "user_titles" => tokens.tap.user \in users

\* C30: under any interleaving of addSuportToUser and removeSuportFromUser, a
\* token with no owning rider has a null activation, so a tap of it is denied
\* ERROR_SUPORT_INACTIVE and never reaches the lookup of the active product
\* with a null rider, and a token bound to a rider is given to another rider
\* only after a removal
C30_TokenBinding ==
    /\ UnownedHasNoActivation
    /\ UnownedTapDenied
    /\ tokens.rebound = {}

====
